---- MODULE Spec2Model ----
(***************************************************************************)
(* Model of scalable_rectpack._core.solve_scalable_rectpack: validation,   *)
(* the Phase 1 box-count model, the box assignment, and the Phase 2 shrink *)
(* models (global and per box), with the CP-SAT solver as an external      *)
(* component that returns any outcome its contract allows.                 *)
(***************************************************************************)
EXTENDS Integers, Sequences, FiniteSets, TLC

VARIABLES
    items,                    \* argument: list of Item records
    box_width, box_height,    \* arguments
    equal_shrink, per_box,    \* arguments
    time_limit,               \* argument
    badtype,                  \* dynamic typing of the arguments: the places holding a non-int / non-Item
    sufficient,               \* TRUE when time_limit lets every solver call finish its proof
    pc,                       \* position inside solve_scalable_rectpack
    status1, min_boxes, box_to_items,                     \* locals after Phase 1
    box_id, packing_results_per_mode,                     \* locals of the per-box loop
    overall_success_phase2, total_shrink_global_sum,
    models_built, solver_calls,                           \* number of CpModel() built / Solve() calls made
    result,                                               \* the returned PackingResult, None until return
    raised,                                               \* the exception raised, None if none
    prev,                                                 \* what the caller kept of the previous call on the same input, if any
    state,                    \* RectPackerEngine.state
    lists,                    \* the list objects: the engine's own list and the lists of default_example
    alias,                    \* the list object engine.items refers to
    solving,                  \* the list object the in-flight solve was given
    validated, built,         \* what the in-flight solve read from its list when validating / when building model1
    ui_error,                 \* the exception a UI handler raised last, None if none
    last_delete,              \* positions of the card clicked and of the item removed by the last delete
    ops                       \* UI operations made so far, and the edits of an item field among them

vars == <<items, box_width, box_height, equal_shrink, per_box, time_limit, badtype,
          sufficient, pc, status1, min_boxes, box_to_items, box_id,
          packing_results_per_mode, overall_success_phase2, total_shrink_global_sum,
          models_built, solver_calls, result, raised, prev,
          state, lists, alias, solving, validated, built, ui_error, last_delete, ops>>

uivars == <<state, lists, alias, solving, validated, built, ui_error, last_delete, ops>>

args == <<items, box_width, box_height, equal_shrink, per_box, time_limit, badtype, sufficient>>

locals == <<status1, min_boxes, box_to_items, box_id, packing_results_per_mode,
            overall_success_phase2, total_shrink_global_sum>>

-----------------------------------------------------------------------------
(* Python's Optional: None is the empty tuple, a present value v is <<v>>. *)
None == <<>>
Some(v) == <<v>>
Get(o) == o[1]

RECURSIVE SumSeq(_)
SumSeq(s) == IF s = <<>> THEN 0 ELSE s[1] + SumSeq(Tail(s))

MinOf(S) == CHOOSE m \in S : \A k \in S : m <= k

min(a, b) == IF a <= b THEN a ELSE b

-----------------------------------------------------------------------------
(* Data classes *)
Item(id, width, height, width_min, height_min) ==
    [id |-> id, width |-> width, height |-> height,
     width_min |-> width_min, height_min |-> height_min]

PackedItem(id, x, y, width, height, b) ==
    [id |-> id, x |-> x, y |-> y, width |-> width, height |-> height, box_id |-> b]

PerBoxPackingResult(b, packed_items, total_shrink, status, outcome) ==
    [box_id |-> b, packed_items |-> packed_items, total_shrink |-> total_shrink,
     status |-> status, outcome |-> outcome]

PackingResult(success, num_boxes_used, status_phase1, outcome, bw, bh, packing_results) ==
    [success |-> success, num_boxes_used |-> num_boxes_used,
     status_phase1 |-> status_phase1, outcome |-> outcome,
     box_width |-> bw, box_height |-> bh, packing_results |-> packing_results]

PackingOutcome ==
    {"OPTIMAL", "FEASIBLE", "NO_SOLUTION_INFEASIBLE", "NO_SOLUTION_TIMEOUT", "NO_SOLUTION_UNKNOWN"}

CpSolverStatus == {"UNKNOWN", "MODEL_INVALID", "FEASIBLE", "INFEASIBLE", "OPTIMAL"}

-----------------------------------------------------------------------------
(* Model builder *)

\* Variant: the size variables start at 1 instead of at the item's minimum.
add_item_variables_from_one(item, max_boxes, bw, bh, eq) ==
    LET max_shrink == min(item.width - item.width_min, item.height - item.height_min)
    IN  { v \in [box_id : 0..(max_boxes - 1), x : 0..bw, y : 0..bh,
                 w : 1..item.width, h : 1..item.height] :
            /\ eq => \E shrink \in 0..max_shrink :
                        /\ v.w = item.width - shrink
                        /\ v.h = item.height - shrink
            /\ v.x + v.w <= bw
            /\ v.y + v.h <= bh }

\* Variant: the boundary constraints x + w <= box.width, y + h <= box.height
\* are left out.
add_item_variables_unbounded(item, max_boxes, bw, bh, eq) ==
    LET max_shrink == min(item.width - item.width_min, item.height - item.height_min)
    IN  { v \in [box_id : 0..(max_boxes - 1), x : 0..bw, y : 0..bh,
                 w : item.width_min..item.width, h : item.height_min..item.height] :
            eq => \E shrink \in 0..max_shrink :
                        /\ v.w = item.width - shrink
                        /\ v.h = item.height - shrink }

\* Variant: the shared shrink variable and its two equalities are left out.
add_item_variables_uncoupled(item, max_boxes, bw, bh, eq) ==
    { v \in [box_id : 0..(max_boxes - 1), x : 0..bw, y : 0..bh,
             w : item.width_min..item.width, h : item.height_min..item.height] :
        /\ v.x + v.w <= bw
        /\ v.y + v.h <= bh }

\* The values one item's variables (box_id, x, y, w, h) may take together.
add_item_variables(item, max_boxes, bw, bh, eq) ==
    LET max_shrink == min(item.width - item.width_min, item.height - item.height_min)
    IN  { v \in [box_id : 0..(max_boxes - 1), x : 0..bw, y : 0..bh,
                 w : item.width_min..item.width, h : item.height_min..item.height] :
            /\ eq => \E shrink \in 0..max_shrink :
                        /\ v.w = item.width - shrink
                        /\ v.h = item.height - shrink
            /\ v.x + v.w <= bw
            /\ v.y + v.h <= bh }

\* Variant: the two vertical tests compare the y coordinates only.
non_overlap_no_height(vi, vj) ==
    \/ vi.x + vi.w <= vj.x
    \/ vj.x + vj.w <= vi.x
    \/ vi.y <= vj.y
    \/ vj.y <= vi.y
    \/ vi.box_id # vj.box_id

\* The disjunction of the five indicators of one pair of items.
non_overlap(vi, vj) ==
    \/ vi.x + vi.w <= vj.x
    \/ vj.x + vj.w <= vi.x
    \/ vi.y + vi.h <= vj.y
    \/ vj.y + vj.h <= vi.y
    \/ vi.box_id # vj.box_id

\* All assignments of the item variables that satisfy the item constraints
\* and the pairwise constraints: the feasible set of the shared model.
RECURSIVE add_non_overlap_constraints(_, _, _, _, _)
add_non_overlap_constraints(its, max_boxes, bw, bh, eq) ==
    IF its = <<>> THEN {<<>>}
    ELSE LET n     == Len(its)
             front == add_non_overlap_constraints(SubSeq(its, 1, n - 1), max_boxes, bw, bh, eq)
             last  == add_item_variables(its[n], max_boxes, bw, bh, eq)
         IN  { Append(p[1], p[2]) :
                 p \in { q \in front \X last :
                           \A i \in 1..(n - 1) : non_overlap(q[1][i], q[2]) } }

\* Variant: max_box_id counts boxes from 1.
add_objective_min_boxes_from_one(sols, n) ==
    { r \in [vars : sols, max_box_id : 1..n] :
        \A i \in 1..Len(r.vars) : r.vars[i].box_id <= r.max_box_id }

\* Variant: the constraints box_id <= max_box_id are left out.
add_objective_min_boxes_unconstrained(sols, n) == [vars : sols, max_box_id : 0..n]

\* Phase 1 objective: the auxiliary variable max_box_id, its constraints
\* box_id <= max_box_id, and the objective (the value of max_box_id).
add_objective_min_boxes(sols, n) ==
    { r \in [vars : sols, max_box_id : 0..n] :
        \A i \in 1..Len(r.vars) : r.vars[i].box_id <= r.max_box_id }

\* Variant: the objective counts the width shrink only.
add_objective_min_shrink_width_only(its, s) ==
    SumSeq([i \in 1..Len(its) |-> its[i].width - s[i].w])

\* Variant: the objective counts the height shrink only.
add_objective_min_shrink_height_only(its, s) ==
    SumSeq([i \in 1..Len(its) |-> its[i].height - s[i].h])

\* Phase 2 objective: total shrink of an assignment of the item variables.
add_objective_min_shrink(its, s) ==
    SumSeq([i \in 1..Len(its) |-> (its[i].width - s[i].w) + (its[i].height - s[i].h)])

-----------------------------------------------------------------------------
(* The external solver.  S is the feasible set of the model, each element  *)
(* a record of the variables' values (sol) and the objective value (obj,   *)
(* ignored unless hasObj).  With a sufficient time budget the solver       *)
(* finishes its proof; otherwise it may also stop early with a feasible    *)
(* solution, with nothing, or with any other status.                       *)
CpSolve(S, hasObj, suff) ==
    LET best == MinOf({u.obj : u \in S})
    IN  {[status |-> "OPTIMAL", sol |-> Some(t.sol)] : t \in {u \in S : hasObj => u.obj = best}}
        \cup (IF S = {} THEN {[status |-> "INFEASIBLE", sol |-> None]} ELSE {})
        \cup (IF suff THEN {}
              ELSE {[status |-> "FEASIBLE", sol |-> Some(t.sol)] : t \in S}
                   \cup {[status |-> "UNKNOWN", sol |-> None],
                         [status |-> "MODEL_INVALID", sol |-> None]})

\* Variant: the area comparison is reversed.
shrinkable_reversed(its) ==
    LET total_initial_area == SumSeq([i \in 1..Len(its) |-> its[i].width * its[i].height])
        total_min_area == SumSeq([i \in 1..Len(its) |-> its[i].width_min * its[i].height_min])
    IN  total_initial_area < total_min_area

\* _solve_model: the shrink objective is added only if the items have slack.
shrinkable(its) ==
    LET total_initial_area == SumSeq([i \in 1..Len(its) |-> its[i].width * its[i].height])
        total_min_area == SumSeq([i \in 1..Len(its) |-> its[i].width_min * its[i].height_min])
    IN  total_initial_area > total_min_area

\* Variant: the reported total counts the width shrink only.
total_shrink_value_width_only(its, s) ==
    SumSeq([i \in 1..Len(its) |-> its[i].width - s[i].w])

\* _solve_model: the total shrink computed from the solution values.
total_shrink_value(its, s) ==
    SumSeq([i \in 1..Len(its) |-> (its[i].width - s[i].w) + (its[i].height - s[i].h)])

\* Variant: the solution is read only after a proof of optimality.
has_solution_optimal_only(status) == status = "OPTIMAL"

\* _solve_model: the statuses after which the solution values are read.
has_solution(status) == status \in {"OPTIMAL", "FEASIBLE"}

\* _solve_model: the outcomes (packed_items, status, total_shrink_value).
solve_model(its, bw, bh, max_boxes, eq, suff) ==
    LET sols == add_non_overlap_constraints(its, max_boxes, bw, bh, eq)
        model == {[sol |-> s, obj |-> add_objective_min_shrink(its, s)] : s \in sols}
    IN  { IF has_solution(o.status)
          THEN [packed_items |->
                    Some([i \in 1..Len(its) |->
                            PackedItem(its[i].id, Get(o.sol)[i].x, Get(o.sol)[i].y,
                                       Get(o.sol)[i].w, Get(o.sol)[i].h, Get(o.sol)[i].box_id)]),
                status |-> o.status,
                total_shrink |-> Some(total_shrink_value(its, Get(o.sol)))]
          ELSE [packed_items |-> None, status |-> o.status, total_shrink |-> None] :
          o \in CpSolve(model, shrinkable(its), suff) }

\* The nested conditional that maps a Phase 2 solver status to an outcome.
outcome_solve(status) ==
    IF status = "OPTIMAL" THEN "OPTIMAL"
    ELSE IF status = "FEASIBLE" THEN "FEASIBLE"
    ELSE IF status = "INFEASIBLE" THEN "NO_SOLUTION_INFEASIBLE"
    ELSE IF status = "UNKNOWN" THEN "NO_SOLUTION_TIMEOUT"
    ELSE "NO_SOLUTION_UNKNOWN"

\* The conditional that maps a failed Phase 1 status to an outcome.
outcome_phase1(status) ==
    IF status = "INFEASIBLE" THEN "NO_SOLUTION_INFEASIBLE" ELSE "NO_SOLUTION_TIMEOUT"

-----------------------------------------------------------------------------
(* Input validation.  isinstance(v, int) fails exactly for the places      *)
(* listed in badtype; place <<0, name>> is a scalar argument and           *)
(* <<i, name>> a field of items[i] (<<i, "Item">>: items[i] is no Item).    *)
IsInt(place) == place \notin badtype

\* Variant: the minimum dimensions are not compared with the box.
validate_item_no_box_check(its, i, bw, bh) ==
    IF <<i, "Item">> \in badtype THEN Some("TypeError")
    ELSE IF ~IsInt(<<i, "width">>) \/ its[i].width <= 0 THEN Some("ValueError")
    ELSE IF ~IsInt(<<i, "height">>) \/ its[i].height <= 0 THEN Some("ValueError")
    ELSE IF ~IsInt(<<i, "width_min">>) \/ its[i].width_min <= 0 THEN Some("ValueError")
    ELSE IF ~IsInt(<<i, "height_min">>) \/ its[i].height_min <= 0 THEN Some("ValueError")
    ELSE IF its[i].width_min > its[i].width THEN Some("ValueError")
    ELSE IF its[i].height_min > its[i].height THEN Some("ValueError")
    ELSE None

validate_item(its, i, bw, bh) ==
    IF <<i, "Item">> \in badtype THEN Some("TypeError")
    ELSE IF ~IsInt(<<i, "width">>) \/ its[i].width <= 0 THEN Some("ValueError")
    ELSE IF ~IsInt(<<i, "height">>) \/ its[i].height <= 0 THEN Some("ValueError")
    ELSE IF ~IsInt(<<i, "width_min">>) \/ its[i].width_min <= 0 THEN Some("ValueError")
    ELSE IF ~IsInt(<<i, "height_min">>) \/ its[i].height_min <= 0 THEN Some("ValueError")
    ELSE IF its[i].width_min > its[i].width THEN Some("ValueError")
    ELSE IF its[i].height_min > its[i].height THEN Some("ValueError")
    ELSE IF its[i].width_min > bw \/ its[i].height_min > bh THEN Some("ValueError")
    ELSE None

\* Variant: only the first item is checked.
validate_items_first_only(its, i, bw, bh) ==
    IF i > 1 THEN None ELSE validate_item(its, i, bw, bh)

RECURSIVE validate_items(_, _, _, _)
validate_items(its, i, bw, bh) ==
    IF i > Len(its) THEN None
    ELSE IF validate_item(its, i, bw, bh) # None THEN validate_item(its, i, bw, bh)
    ELSE validate_items(its, i + 1, bw, bh)

validation(its, bw, bh, tl) ==
    IF its = <<>> THEN Some("ValueError")
    ELSE IF ~IsInt(<<0, "box_width">>) \/ bw <= 0 THEN Some("ValueError")
    ELSE IF ~IsInt(<<0, "box_height">>) \/ bh <= 0 THEN Some("ValueError")
    ELSE IF ~IsInt(<<0, "time_limit">>) \/ tl <= 0 THEN Some("ValueError")
    ELSE validate_items(its, 1, bw, bh)

-----------------------------------------------------------------------------
(* Bounds and the inputs explored *)
MaxItems == 2     \* longest item list of a call
MaxDim == 2       \* largest box dimension
MaxWork == 32     \* largest Len(items)^3 * box_width * box_height of a call

\* <<width, height, width_min, height_min>> of the items explored: units,
\* bars and squares, unshrinkable, shrinkable on one axis, or on both.
Shapes ==
    { <<1, 1, 1, 1>>,
      <<2, 1, 1, 1>>, <<2, 1, 2, 1>>,
      <<1, 2, 1, 1>>, <<1, 2, 1, 2>>,
      <<2, 2, 1, 1>>, <<2, 2, 1, 2>>, <<2, 2, 2, 1>>, <<2, 2, 2, 2>> }

MkItems(shs) == [i \in 1..Len(shs) |-> Item(i, shs[i][1], shs[i][2], shs[i][3], shs[i][4])]

\* Well-typed calls with positive dimensions (a minimum may still exceed the box).
Calls(maxItems, maxDim, maxWork) ==
    { [items |-> MkItems(shs), box_width |-> bw, box_height |-> bh, time_limit |-> 30, badtype |-> {}] :
        <<shs, bw, bh>> \in
            { t \in (UNION { [1..n -> Shapes] : n \in 1..maxItems }) \X (1..maxDim) \X (1..maxDim) :
                Len(t[1]) * Len(t[1]) * Len(t[1]) * t[2] * t[3] <= maxWork } }

TypedCalls == Calls(MaxItems, MaxDim, MaxWork)

Fields == {"width", "height", "width_min", "height_min"}

\* Calls that break one precondition at one place of an otherwise valid call.
BrokenCalls ==
    LET good == { c \in TypedCalls : c.box_width = 2 /\ c.box_height = 2 }
    IN  {[items |-> <<>>, box_width |-> 2, box_height |-> 2, time_limit |-> 30, badtype |-> {}]}
        \cup { [c EXCEPT !.box_width = v] : c \in good, v \in {0, -1} }
        \cup { [c EXCEPT !.box_height = v] : c \in good, v \in {0, -1} }
        \cup { [c EXCEPT !.time_limit = v] : c \in good, v \in {0, -1} }
        \cup { [c EXCEPT !.badtype = {<<0, f>>}] : c \in good, f \in {"box_width", "box_height", "time_limit"} }
        \cup UNION { { [c EXCEPT !.items[i][f] = v] : i \in 1..Len(c.items), f \in Fields, v \in {0, -1, 3} } : c \in good }
        \cup UNION { { [c EXCEPT !.badtype = {<<i, f>>}] : i \in 1..Len(c.items), f \in Fields \cup {"Item"} } : c \in good }

\* Item ids are not validated: two-item calls on a 1 x 2 box whose items
\* carry the same id.
SameIdCalls ==
    { [c EXCEPT !.items[2].id = c.items[1].id] :
        c \in { t \in TypedCalls : Len(t.items) = 2 /\ t.box_width = 1 /\ t.box_height = 2 } }

InitLocals ==
    /\ pc = "start"
    /\ status1 = None
    /\ min_boxes = None
    /\ box_to_items = None
    /\ box_id = None
    /\ packing_results_per_mode = <<>>
    /\ overall_success_phase2 = TRUE
    /\ total_shrink_global_sum = 0
    /\ models_built = 0
    /\ solver_calls = 0
    /\ result = None
    /\ raised = None

\* A direct call of the library: no engine, no UI.
NoEngine ==
    /\ state = "idle"
    /\ lists = <<>>
    /\ alias = "own"
    /\ solving = None
    /\ validated = None
    /\ built = None
    /\ ui_error = None
    /\ last_delete = None
    /\ ops = [ui |-> 0, edits |-> 0]

InitCall(c) ==
    /\ NoEngine
    /\ items = c.items
    /\ box_width = c.box_width
    /\ box_height = c.box_height
    /\ time_limit = c.time_limit
    /\ badtype = c.badtype

Init ==
    /\ \E c \in TypedCalls \cup BrokenCalls \cup SameIdCalls : InitCall(c)
    /\ equal_shrink \in BOOLEAN
    /\ per_box \in BOOLEAN
    /\ sufficient \in BOOLEAN
    /\ InitLocals
    /\ prev = None

-----------------------------------------------------------------------------
(* solve_scalable_rectpack, one action per stretch between solver calls *)

\* Input validation: raise, or go on to Phase 1.
Validate ==
    /\ pc = "start"
    /\ LET e == validation(items, box_width, box_height, time_limit)
       IN  IF e # None
           THEN /\ raised' = e
                /\ pc' = "raised"
           ELSE /\ raised' = raised
                /\ pc' = "phase1"
    /\ UNCHANGED <<args, locals, models_built, solver_calls, result, prev, uivars>>

\* Variant: the failure result reports the box capacity that was tried.
phase1_failure_with_boxes(status, bw, bh) ==
    PackingResult(FALSE, Some(0), status, outcome_phase1(status), bw, bh, <<>>)

\* The PackingResult returned when Phase 1 found no solution.
phase1_failure(status, bw, bh) ==
    PackingResult(FALSE, None, status, outcome_phase1(status), bw, bh, <<>>)

\* Variant: one box too many.
min_boxes_of_plus_two(max_box_id) == max_box_id + 2

\* min_boxes = solver1.Value(max_box_id) + 1
min_boxes_of(max_box_id) == max_box_id + 1

\* Variant: the loop stops at the first box without a solution.
loop_breaks_on_failure(b, n_boxes, success_so_far) == b + 1 < n_boxes /\ success_so_far

\* The per-box loop runs over every key of box_to_items: after box b it
\* goes on exactly when another box is left, whatever happened so far.
loop_continues(b, n_boxes, success_so_far) == b + 1 < n_boxes

\* Variant: a bucket keeps only the first item assigned to it.
Bucket_first_only(its, sol, b) ==
    LET Test(i) == sol[i].box_id = b
        idx == SelectSeq([i \in 1..Len(its) |-> i], Test)
    IN  [k \in 1..min(1, Len(idx)) |-> its[idx[k]]]

\* The items the Phase 1 solution puts into box b, in list order.
Bucket(its, sol, b) ==
    LET Test(i) == sol[i].box_id = b
        idx == SelectSeq([i \in 1..Len(its) |-> i], Test)
    IN  [k \in 1..Len(idx) |-> its[idx[k]]]

\* Step 1 and Step 2: build and solve model1, then assign items to boxes.
Phase1 ==
    /\ pc = "phase1"
    /\ LET max_boxes == Len(items)
           sols == add_non_overlap_constraints(items, max_boxes, box_width, box_height, equal_shrink)
           model1 == {[sol |-> r, obj |-> r.max_box_id] :
                         r \in add_objective_min_boxes(sols, Len(items))}
       IN  \E o \in CpSolve(model1, TRUE, sufficient) :
             /\ status1' = Some(o.status)
             /\ IF o.status \notin {"OPTIMAL", "FEASIBLE"}
                THEN /\ result' = Some(phase1_failure(o.status, box_width, box_height))
                     /\ pc' = "done"
                     /\ UNCHANGED <<min_boxes, box_to_items, box_id>>
                ELSE /\ min_boxes' = Some(min_boxes_of(Get(o.sol).max_box_id))
                     /\ box_to_items' = Some([b \in 0..(min_boxes_of(Get(o.sol).max_box_id) - 1) |->
                                                 Bucket(items, Get(o.sol).vars, b)])
                     /\ box_id' = IF per_box THEN Some(0) ELSE None
                     /\ pc' = IF per_box THEN "phase2_per_box" ELSE "phase2_global"
                     /\ result' = result
    /\ models_built' = models_built + 1
    /\ solver_calls' = solver_calls + 1
    /\ UNCHANGED <<args, packing_results_per_mode, overall_success_phase2,
                   total_shrink_global_sum, raised, prev, uivars>>

RECURSIVE Concat(_, _, _)
Concat(f, b, last) == IF b > last THEN <<>> ELSE f[b] \o Concat(f, b + 1, last)

\* Variant: every Phase 2 model gets one box.
phase2_max_boxes_always_one(pb, mb) == 1

\* The max_boxes argument of the Phase 2 calls of _solve_model: 1 for a
\* per-box model, min_boxes for the global model.
phase2_max_boxes(pb, mb) == IF pb THEN 1 ELSE mb

\* Step 3, per_box = False: one global model over all items.
Phase2Global ==
    /\ pc = "phase2_global"
    /\ LET all_items == Concat(Get(box_to_items), 0, Get(min_boxes) - 1)
       IN  \E r \in solve_model(all_items, box_width, box_height,
                                   phase2_max_boxes(FALSE, Get(min_boxes)), equal_shrink, sufficient) :
             LET outcome_global_solve == outcome_solve(r.status)
                 entry == PerBoxPackingResult(None, r.packed_items, r.total_shrink, r.status,
                                              outcome_global_solve)
             IN  /\ packing_results_per_mode' = Append(packing_results_per_mode, entry)
                 /\ result' = Some(PackingResult(r.packed_items # None, min_boxes, Get(status1),
                                                 outcome_global_solve, box_width, box_height,
                                                 Append(packing_results_per_mode, entry)))
    /\ pc' = "done"
    /\ models_built' = models_built + 1
    /\ solver_calls' = solver_calls + 1
    /\ UNCHANGED <<args, status1, min_boxes, box_to_items, box_id, overall_success_phase2,
                   total_shrink_global_sum, raised, prev, uivars>>

\* Variant: a successful per-box run is always reported as OPTIMAL.
overall_outcome_phase2_always_optimal(success, all_optimal) ==
    IF ~success THEN "NO_SOLUTION_UNKNOWN" ELSE "OPTIMAL"

\* The overall outcome of the two returns that follow the per-box loop.
overall_outcome_phase2(success, all_optimal) ==
    IF ~success THEN "NO_SOLUTION_UNKNOWN"
    ELSE IF all_optimal THEN "OPTIMAL" ELSE "FEASIBLE"

\* Step 3, per_box = True: one iteration of the loop over box_to_items, and
\* after the last iteration the return that follows the loop.
Phase2PerBox ==
    /\ pc = "phase2_per_box"
    /\ LET b == Get(box_id)
           box_items == Get(box_to_items)[b]
       IN  \E r \in solve_model(box_items, box_width, box_height,
                                   phase2_max_boxes(TRUE, Get(min_boxes)), equal_shrink, sufficient) :
             LET outcome_box_solve == outcome_solve(r.status)
                 packed_box == IF r.packed_items = None THEN None
                               ELSE Some([i \in 1..Len(Get(r.packed_items)) |->
                                            [Get(r.packed_items)[i] EXCEPT !.box_id = b]])
                 entry == PerBoxPackingResult(Some(b), packed_box, r.total_shrink, r.status,
                                              outcome_box_solve)
                 results == Append(packing_results_per_mode, entry)
                 success == overall_success_phase2 /\ r.packed_items # None
                 all_optimal == \A k \in 1..Len(results) : results[k].outcome = "OPTIMAL"
             IN  /\ packing_results_per_mode' = results
                 /\ overall_success_phase2' = success
                 /\ total_shrink_global_sum' =
                        IF r.packed_items = None THEN total_shrink_global_sum
                        ELSE total_shrink_global_sum + Get(r.total_shrink)
                 /\ IF loop_continues(b, Get(min_boxes), success)
                    THEN /\ box_id' = Some(b + 1)
                         /\ pc' = pc
                         /\ result' = result
                    ELSE /\ box_id' = box_id
                         /\ pc' = "done"
                         /\ result' = Some(PackingResult(
                                success, min_boxes, Get(status1),
                                overall_outcome_phase2(success, all_optimal),
                                box_width, box_height, results))
    /\ models_built' = models_built + 1
    /\ solver_calls' = solver_calls + 1
    /\ UNCHANGED <<args, status1, min_boxes, box_to_items, raised, prev, uivars>>

Next == Validate \/ Phase1 \/ Phase2Global \/ Phase2PerBox

Spec == Init /\ [][Next]_vars

-----------------------------------------------------------------------------
(* A caller that solves the same instance again, with a time budget that   *)
(* lets every solver call finish its proof.                                *)
MaxItemsRepeat == 3    \* longest item list of a repeated call
MaxWorkRepeat == 54    \* largest Len(items)^3 * box_width * box_height of a repeated call
MaxCalls == 2          \* calls made on one instance

InitRepeat ==
    /\ \E c \in Calls(MaxItemsRepeat, MaxDim, MaxWorkRepeat) : InitCall(c)
    /\ equal_shrink \in BOOLEAN
    /\ per_box \in BOOLEAN
    /\ sufficient = TRUE
    /\ InitLocals
    /\ prev = None

RECURSIVE SumShrink(_, _)
SumShrink(entries, k) ==
    IF k > Len(entries) THEN 0
    ELSE (IF entries[k].total_shrink = None THEN 0 ELSE Get(entries[k].total_shrink))
         + SumShrink(entries, k + 1)

\* The number of calls finished before the current one.
CallsBefore == IF prev = None THEN 0 ELSE Get(prev).call

\* What the caller keeps of a finished call.
Summary ==
    [call |-> CallsBefore + 1,
     equal_shrink |-> equal_shrink,
     num_boxes_used |-> Get(result).num_boxes_used,
     total_shrink |-> SumShrink(Get(result).packing_results, 1),
     all_optimal |-> /\ Get(result).status_phase1 = "OPTIMAL"
                     /\ Get(result).packing_results # <<>>
                     /\ \A k \in 1..Len(Get(result).packing_results) :
                           Get(result).packing_results[k].status = "OPTIMAL",
     box_to_items |-> box_to_items,
     per_box |-> per_box,
     phase2_optimal |-> /\ Get(result).packing_results # <<>>
                        /\ \A k \in 1..Len(Get(result).packing_results) :
                              Get(result).packing_results[k].status = "OPTIMAL"]

Restart ==
    /\ pc = "done"
    /\ CallsBefore + 1 < MaxCalls
    /\ prev' = Some(Summary)
    /\ pc' = "start"
    /\ status1' = None
    /\ min_boxes' = None
    /\ box_to_items' = None
    /\ box_id' = None
    /\ packing_results_per_mode' = <<>>
    /\ overall_success_phase2' = TRUE
    /\ total_shrink_global_sum' = 0
    /\ models_built' = 0
    /\ solver_calls' = 0
    /\ result' = None
    /\ raised' = None
    /\ UNCHANGED <<items, box_width, box_height, per_box, time_limit, badtype, sufficient, uivars>>

\* The same call once more.
SolveAgain == Restart /\ equal_shrink' = equal_shrink

\* The same call with the other shrink mode.
SolveAgainOtherShrink == Restart /\ equal_shrink' = ~equal_shrink

NextRepeat == Next \/ SolveAgain \/ SolveAgainOtherShrink

SpecRepeat == InitRepeat /\ [][NextRepeat]_vars

-----------------------------------------------------------------------------
(* A caller that solves the same instance again in the other Phase 2 mode  *)
(* (per box, then global, or the reverse); on the smaller instances the    *)
(* solver may also stop early.                                             *)
MaxWorkEarlyStop == 8    \* largest Len(items)^3 * box_width * box_height of a call whose solves may stop early

InitModes ==
    /\ \E c \in Calls(MaxItemsRepeat, MaxDim, MaxWorkRepeat) :
          /\ InitCall(c)
          /\ sufficient \in
                IF Len(c.items) * Len(c.items) * Len(c.items) * c.box_width * c.box_height
                       <= MaxWorkEarlyStop
                THEN BOOLEAN ELSE {TRUE}
    /\ equal_shrink \in BOOLEAN
    /\ per_box \in BOOLEAN
    /\ InitLocals
    /\ prev = None

\* The same call with per_box flipped.
SolveAgainOtherMode ==
    /\ pc = "done"
    /\ CallsBefore + 1 < MaxCalls
    /\ prev' = Some(Summary)
    /\ per_box' = ~per_box
    /\ pc' = "start"
    /\ status1' = None
    /\ min_boxes' = None
    /\ box_to_items' = None
    /\ box_id' = None
    /\ packing_results_per_mode' = <<>>
    /\ overall_success_phase2' = TRUE
    /\ total_shrink_global_sum' = 0
    /\ models_built' = 0
    /\ solver_calls' = 0
    /\ result' = None
    /\ raised' = None
    /\ UNCHANGED <<items, box_width, box_height, equal_shrink, time_limit, badtype, sufficient, uivars>>

NextModes == Next \/ SolveAgainOtherMode

SpecModes == InitModes /\ [][NextModes]_vars

-----------------------------------------------------------------------------
(* The NiceGUI front end: RectPackerEngine, its ControlPanel handlers, and *)
(* the solve that run_async hands to the io_bound worker thread.  The      *)
(* solve is followed through its reads of the item list only.              *)
MaxOps == 4        \* UI operations in one session
MaxEdits == 1      \* edits of an item field among them
ExampleLen == 3    \* items kept of each default example

EditValues == {0, 1}   \* the values typed into a number field

_example_1 ==
    [items |-> << Item(1, 60, 60, 50, 50), Item(2, 55, 55, 45, 45), Item(3, 50, 50, 40, 40),
                  Item(4, 65, 65, 55, 55), Item(5, 45, 45, 35, 35), Item(6, 50, 50, 40, 40),
                  Item(7, 55, 55, 45, 45), Item(8, 60, 60, 50, 50), Item(9, 50, 50, 40, 40),
                  Item(10, 45, 45, 35, 35), Item(11, 70, 40, 60, 30), Item(12, 60, 50, 50, 40) >>,
     box_width |-> 200, box_height |-> 150]

_example_2 ==
    [items |-> << Item(1, 100, 80, 90, 20), Item(2, 90, 70, 80, 60), Item(3, 50, 50, 40, 40),
                  Item(4, 65, 65, 55, 55), Item(5, 45, 45, 35, 35), Item(6, 50, 50, 40, 40),
                  Item(7, 54, 55, 46, 42), Item(8, 60, 60, 50, 50), Item(9, 30, 30, 30, 30),
                  Item(10, 15, 15, 10, 10) >>,
     box_width |-> 100, box_height |-> 80]

ExampleNames == {"Example 1", "Example 2"}

default_example == [name \in ExampleNames |-> IF name = "Example 1" THEN _example_1 ELSE _example_2]

\* The list objects of a session: RectPacker.items' default list and the
\* two lists held by default_example, each cut to its first ExampleLen items.
InitLists ==
    [name \in ExampleNames \cup {"own"} |->
        IF name = "own" THEN <<>>
        ELSE SubSeq(default_example[name].items, 1,
                    min(ExampleLen, Len(default_example[name].items)))]

\* get_engine: a fresh RectPackerEngine, state idle.
InitUI ==
    /\ state = "idle"
    /\ lists = InitLists
    /\ alias = "own"
    /\ items = <<>>
    /\ box_width = 0
    /\ box_height = 0
    /\ equal_shrink = TRUE
    /\ per_box = TRUE
    /\ time_limit = 30
    /\ badtype = {}
    /\ sufficient = TRUE
    /\ solving = None
    /\ validated = None
    /\ built = None
    /\ ui_error = None
    /\ last_delete = None
    /\ ops = [ui |-> 0, edits |-> 0]
    /\ InitLocals
    /\ prev = None

\* What the handlers and the followed solve leave alone.
solve_state ==
    <<equal_shrink, per_box, time_limit, badtype, sufficient, pc, locals,
      models_built, solver_calls, result, raised, prev>>

\* ControlPanel.load_example: engine.update(**example) rebinds engine.items
\* to the example's own list object, then refreshes the panels.
load_example(name) ==
    /\ ops.ui < MaxOps
    /\ alias' = name
    /\ items' = lists[name]
    /\ box_width' = default_example[name].box_width
    /\ box_height' = default_example[name].box_height
    /\ ops' = [ops EXCEPT !.ui = @ + 1]
    /\ UNCHANGED <<state, lists, solving, validated, built, ui_error, last_delete, solve_state>>

\* ControlPanel.add_item: append Item(len(items), 1, 1, 1, 1).
add_item ==
    /\ ops.ui < MaxOps
    /\ items' = Append(items, Item(Len(items), 1, 1, 1, 1))
    /\ lists' = [lists EXCEPT ![alias] = Append(items, Item(Len(items), 1, 1, 1, 1))]
    /\ ops' = [ops EXCEPT !.ui = @ + 1]
    /\ UNCHANGED <<state, alias, box_width, box_height, solving, validated, built,
                   ui_error, last_delete, solve_state>>

\* list.pop(index), index counted from 0.
pop(list, index) == SubSeq(list, 1, index) \o SubSeq(list, index + 2, Len(list))

\* RectPacker.delete_item: pop the list index item_id, then renumber.
delete_item(list, item_id) ==
    LET rest == pop(list, item_id)
    IN  [i \in 1..Len(rest) |-> [rest[i] EXCEPT !.id = i - 1]]

\* A click on the delete button of card j, which was rendered with
\* partial(self.delete_item, item.id).
click_delete(j) ==
    /\ ops.ui < MaxOps
    /\ j \in 1..Len(items)
    /\ ops' = [ops EXCEPT !.ui = @ + 1]
    /\ IF items[j].id >= Len(items)
       THEN /\ ui_error' = Some("IndexError")
            /\ UNCHANGED <<items, lists, last_delete>>
       ELSE /\ items' = delete_item(items, items[j].id)
            /\ lists' = [lists EXCEPT ![alias] = delete_item(items, items[j].id)]
            /\ last_delete' = Some([clicked |-> j, removed |-> items[j].id + 1])
            /\ ui_error' = ui_error
    /\ UNCHANGED <<state, alias, box_width, box_height, solving, validated, built, solve_state>>

\* A number field of card j bound to the Item with bind_value: a typed value
\* is written to the field of the Item object.
edit_item(j, f, v) ==
    /\ ops.ui < MaxOps
    /\ ops.edits < MaxEdits
    /\ j \in 1..Len(items)
    /\ items[j][f] # v
    /\ items' = [items EXCEPT ![j][f] = v]
    /\ lists' = [lists EXCEPT ![alias] = [items EXCEPT ![j][f] = v]]
    /\ ops' = [ui |-> ops.ui + 1, edits |-> ops.edits + 1]
    /\ UNCHANGED <<state, alias, box_width, box_height, solving, validated, built,
                   ui_error, last_delete, solve_state>>

\* ControlPanel.run_packing, enabled unless is_running: RectPackerEngine.run
\* sets state to running and calls solve_scalable_rectpack with the list
\* object engine.items refers to and the box dimensions of that moment.
run_packing ==
    /\ ops.ui < MaxOps
    /\ state # "running"
    /\ state' = "running"
    /\ solving' = Some([list |-> alias, box_width |-> box_width, box_height |-> box_height])
    /\ validated' = None
    /\ built' = None
    /\ ops' = [ops EXCEPT !.ui = @ + 1]
    /\ UNCHANGED <<items, lists, alias, box_width, box_height, ui_error, last_delete, solve_state>>

\* The solve on the worker thread validates its list; an exception ends
\* RectPackerEngine.run with state error.
solve_validates ==
    /\ state = "running"
    /\ validated = None
    /\ validated' = Some(lists[Get(solving).list])
    /\ state' = IF validation(lists[Get(solving).list], Get(solving).box_width,
                              Get(solving).box_height, time_limit) # None
                THEN "error" ELSE "running"
    /\ UNCHANGED <<items, lists, alias, box_width, box_height, solving, built, ui_error,
                   last_delete, ops, solve_state>>

\* The solve on the worker thread builds model1 from its list.
solve_builds ==
    /\ state = "running"
    /\ validated # None
    /\ built = None
    /\ built' = Some(lists[Get(solving).list])
    /\ UNCHANGED <<items, lists, alias, box_width, box_height, state, solving, validated,
                   ui_error, last_delete, ops, solve_state>>

\* The solve returns and RectPackerEngine.run sets state to finished.
run_finishes ==
    /\ state = "running"
    /\ built # None
    /\ state' = "finished"
    /\ UNCHANGED <<items, lists, alias, box_width, box_height, solving, validated, built,
                   ui_error, last_delete, ops, solve_state>>

NextUI ==
    \/ \E name \in ExampleNames : load_example(name)
    \/ add_item
    \/ \E j \in 1..Len(items) : click_delete(j)
    \/ \E j \in 1..Len(items), f \in Fields, v \in EditValues : edit_item(j, f, v)
    \/ run_packing
    \/ solve_validates
    \/ solve_builds
    \/ run_finishes

SpecUI == InitUI /\ [][NextUI]_vars

-----------------------------------------------------------------------------
(* Properties of the returned PackingResult *)

Returned == result # None

Entries == Get(result).packing_results

\* The list of items entry k was solved for: the group of box k-1 in
\* per-box mode, the concatenation of all groups in global mode.
SolvedList(k) ==
    IF per_box THEN Get(box_to_items)[k - 1]
    ELSE Concat(Get(box_to_items), 0, Get(min_boxes) - 1)

RECURSIVE PackedFrom(_, _)
PackedFrom(entries, k) ==
    IF k > Len(entries) THEN <<>>
    ELSE (IF entries[k].packed_items = None THEN <<>> ELSE Get(entries[k].packed_items))
         \o PackedFrom(entries, k + 1)

\* Every PackedItem of the returned result, over all entries.
AllPacked == PackedFrom(Entries, 1)

Separated(p, q) ==
    \/ p.x + p.width <= q.x
    \/ q.x + q.width <= p.x
    \/ p.y + p.height <= q.y
    \/ q.y + q.height <= p.y

\* C1: in every returned result, any two PackedItems that carry the same
\* box_id satisfy at least one of the four separation conditions.
C1_NoOverlap ==
    Returned =>
        \A i, j \in 1..Len(AllPacked) :
            (i < j /\ AllPacked[i].box_id = AllPacked[j].box_id)
                => Separated(AllPacked[i], AllPacked[j])

\* A successful result in which two items share a box.
C1_Witness ==
    /\ Returned
    /\ Get(result).success
    /\ \E i, j \in 1..Len(AllPacked) :
          /\ i < j
          /\ AllPacked[i].box_id = AllPacked[j].box_id
          /\ AllPacked[i].y # AllPacked[j].y

\* C2: every PackedItem has width_min <= width <= original width and
\* height_min <= height <= original height of the Item at the same position
\* of the list its model was solved for.
C2_SizeBounds ==
    Returned =>
        \A k \in 1..Len(Entries) :
            Entries[k].packed_items # None =>
                LET packed == Get(Entries[k].packed_items)
                    src == SolvedList(k)
                IN  /\ Len(packed) = Len(src)
                    /\ \A i \in 1..Len(packed) :
                          /\ packed[i].id = src[i].id
                          /\ src[i].width_min <= packed[i].width
                          /\ packed[i].width <= src[i].width
                          /\ src[i].height_min <= packed[i].height
                          /\ packed[i].height <= src[i].height

\* A returned item that was shrunk on one axis and kept on the other.
C2_Witness ==
    /\ Returned
    /\ \E k \in 1..Len(Entries) :
          /\ Entries[k].packed_items # None
          /\ \E i \in 1..Len(SolvedList(k)) :
                /\ Get(Entries[k].packed_items)[i].width < SolvedList(k)[i].width
                /\ Get(Entries[k].packed_items)[i].height = SolvedList(k)[i].height

\* C3: every PackedItem lies inside the box: 0 <= x, 0 <= y,
\* x + width <= box_width and y + height <= box_height.
C3_InsideBox ==
    Returned =>
        \A i \in 1..Len(AllPacked) :
            /\ 0 <= AllPacked[i].x
            /\ 0 <= AllPacked[i].y
            /\ AllPacked[i].x + AllPacked[i].width <= box_width
            /\ AllPacked[i].y + AllPacked[i].height <= box_height

\* A returned item whose original size exceeds the box and that touches
\* the far edges of the box.
C3_Witness ==
    /\ Returned
    /\ \E k \in 1..Len(Entries) :
          /\ Entries[k].packed_items # None
          /\ \E i \in 1..Len(SolvedList(k)) :
                /\ SolvedList(k)[i].width > box_width
                /\ Get(Entries[k].packed_items)[i].x + Get(Entries[k].packed_items)[i].width = box_width

-----------------------------------------------------------------------------
(* Error handling *)

\* The precondition violations, read off the arguments.
BadItem(i) ==
    \/ <<i, "width">> \notin badtype /\ items[i].width <= 0
    \/ <<i, "height">> \notin badtype /\ items[i].height <= 0
    \/ <<i, "width_min">> \notin badtype /\ items[i].width_min <= 0
    \/ <<i, "height_min">> \notin badtype /\ items[i].height_min <= 0
    \/ /\ \A f \in Fields \cup {"Item"} : <<i, f>> \notin badtype
       /\ <<0, "box_width">> \notin badtype
       /\ <<0, "box_height">> \notin badtype
       /\ \/ items[i].width_min > items[i].width
          \/ items[i].height_min > items[i].height
          \/ items[i].width_min > box_width
          \/ items[i].height_min > box_height

InvalidInput ==
    \/ items = <<>>
    \/ <<0, "box_width">> \in badtype \/ box_width <= 0
    \/ <<0, "box_height">> \in badtype \/ box_height <= 0
    \/ <<0, "time_limit">> \in badtype \/ time_limit <= 0
    \/ \E i \in 1..Len(items) : BadItem(i)

\* C8: on an input that breaks a precondition (empty list, a box dimension
\* or time limit that is not a positive integer, an item with a non-positive
\* dimension or minimum, a minimum above the dimension or above the box),
\* the call raises, and no model is built and no solver call is made.
C8_ValidationFirst ==
    (InvalidInput /\ pc # "start") =>
        /\ pc = "raised"
        /\ raised # None
        /\ result = None
        /\ models_built = 0
        /\ solver_calls = 0

\* The call raised although the first item of the list is valid.
C8_Witness ==
    /\ pc = "raised"
    /\ Len(items) = 2
    /\ ~BadItem(1)
    /\ BadItem(2)
    /\ box_width > 0 /\ box_height > 0 /\ time_limit > 0 /\ badtype = {}

\* C9: when Phase 1 ends with a status other than OPTIMAL or FEASIBLE the
\* call returns at once: no Phase 2 solver call, success = false,
\* num_boxes_used = None and an empty packing_results list.
C9_Phase1ShortCircuit ==
    (status1 # None /\ Get(status1) \notin {"OPTIMAL", "FEASIBLE"}) =>
        /\ pc = "done"
        /\ solver_calls = 1
        /\ Returned
        /\ Get(result).success = FALSE
        /\ Get(result).num_boxes_used = None
        /\ Get(result).packing_results = <<>>

\* Phase 1 was proven infeasible and the call returned.
C9_Witness ==
    /\ status1 = Some("INFEASIBLE")
    /\ pc = "done"

\* C10: in per_box mode every one of the min_boxes groups is solved, also
\* after a failed one: the result has exactly min_boxes entries in box
\* order, success is false if some entry has no solution, and every entry
\* whose solve ended OPTIMAL or FEASIBLE carries packed_items and total_shrink.
C10_AllBoxesSolved ==
    (pc = "done" /\ per_box /\ min_boxes # None) =>
        /\ Len(Entries) = Get(min_boxes)
        /\ solver_calls = 1 + Get(min_boxes)
        /\ \A k \in 1..Len(Entries) :
              /\ Entries[k].box_id = Some(k - 1)
              /\ Entries[k].status \in {"OPTIMAL", "FEASIBLE"} =>
                    /\ Entries[k].packed_items # None
                    /\ Entries[k].total_shrink # None
        /\ (\E k \in 1..Len(Entries) : Entries[k].packed_items = None)
              => Get(result).success = FALSE

\* The first box failed and a later box still carries its placements.
C10_Witness ==
    /\ pc = "done" /\ per_box /\ min_boxes # None
    /\ Len(Entries) >= 2
    /\ Entries[1].packed_items = None
    /\ \E k \in 2..Len(Entries) :
          /\ Entries[k].packed_items # None
          /\ Get(Entries[k].packed_items) # <<>>
    /\ Get(result).success = FALSE

-----------------------------------------------------------------------------
(* The box count of Phase 1 against packings written out directly *)

\* Two placed rectangles of one box share interior points.
Overlap(a, b) ==
    /\ a.box = b.box
    /\ a.x < b.x + b.w /\ b.x < a.x + a.w
    /\ a.y < b.y + b.h /\ b.y < a.y + a.h

\* The sizes <<w, h>> an item may take.
SizesAnywhere(it) == (it.width_min..it.width) \X (it.height_min..it.height)
SizesEqualShrink(it) ==
    { <<it.width - d, it.height - d>> :
        d \in 0..min(it.width - it.width_min, it.height - it.height_min) }
SizesOfMode(it) == IF equal_shrink THEN SizesEqualShrink(it) ELSE SizesAnywhere(it)
SizeMinimum(it) == {<<it.width_min, it.height_min>>}
SizeSmallestOfMode(it) ==
    IF equal_shrink
    THEN LET m == min(it.width - it.width_min, it.height - it.height_min)
         IN  {<<it.width - m, it.height - m>>}
    ELSE SizeMinimum(it)

\* The in-bounds positions of a rectangle of one of the given sizes in k boxes.
Positions(sizes, k) ==
    UNION { { [box |-> b, x |-> x, y |-> y, w |-> sz[1], h |-> sz[2]] :
                b \in 1..k, x \in 0..(box_width - sz[1]), y \in 0..(box_height - sz[2]) } :
            sz \in sizes }

\* The overlap-free packings of rectangles 1..n into k boxes, sizes[i] being
\* the sizes allowed for rectangle i.
RECURSIVE Packings(_, _, _)
Packings(sizes, n, k) ==
    IF n = 0 THEN {<<>>}
    ELSE { Append(p[1], p[2]) :
             p \in { q \in Packings(sizes, n - 1, k) \X Positions(sizes[n], k) :
                       \A i \in 1..(n - 1) : ~Overlap(q[1][i], q[2]) } }

Fits(sizes, k) == Packings(sizes, Len(sizes), k) # {}

\* The least number of boxes that hold all items; 0 if no number does.
FewestBoxes(sizes) ==
    IF \E k \in 1..Len(sizes) : Fits(sizes, k)
    THEN MinOf({k \in 1..Len(sizes) : Fits(sizes, k)})
    ELSE 0

Phase1Optimal == status1 = Some("OPTIMAL")

\* C4 as stated: when Phase 1 ends OPTIMAL, num_boxes_used is the least
\* number of boxes that hold all items with every size chosen anywhere in
\* [min, original] per axis.
C4_Original ==
    Phase1Optimal =>
        Get(min_boxes) = FewestBoxes([i \in 1..Len(items) |-> SizesAnywhere(items[i])])

\* C4 amended: when Phase 1 ends OPTIMAL, num_boxes_used is the least number
\* of boxes that hold all items with every size chosen among the sizes the
\* shrink mode allows (anywhere in [min, original] per axis without
\* equal_shrink, the same shrink on both axes with it).
C4_MinBoxesOfMode ==
    Phase1Optimal =>
        Get(min_boxes) = FewestBoxes([i \in 1..Len(items) |-> SizesOfMode(items[i])])

\* Two items that cannot share a box at any allowed size get two boxes.
C4_Witness ==
    /\ Phase1Optimal
    /\ Len(items) = 2
    /\ Get(min_boxes) = 2
    /\ ~Fits([i \in 1..Len(items) |-> SizesOfMode(items[i])], 1)

\* C5 as stated: when Phase 1 ends OPTIMAL with k boxes, the items at their
\* minimum dimensions do not fit into k - 1 boxes, for both shrink modes.
C5_Original ==
    Phase1Optimal =>
        ~Fits([i \in 1..Len(items) |-> SizeMinimum(items[i])], Get(min_boxes) - 1)

\* C5 amended: when Phase 1 ends OPTIMAL with k boxes, the items at the
\* smallest size their shrink mode allows do not fit into k - 1 boxes.
C5_LowerBoundOfMode ==
    Phase1Optimal =>
        ~Fits([i \in 1..Len(items) |-> SizeSmallestOfMode(items[i])], Get(min_boxes) - 1)

\* Two boxes are needed although equal shrink keeps an item above its minimum.
C5_Witness ==
    /\ Phase1Optimal
    /\ equal_shrink
    /\ Get(min_boxes) = 2
    /\ \E i \in 1..Len(items) : SizeSmallestOfMode(items[i]) # SizeMinimum(items[i])

-----------------------------------------------------------------------------
(* Two calls on the same instance *)

\* The call that just finished and the earlier call j, and every solver
\* call of both ended OPTIMAL.
BothOptimal(j) ==
    /\ j \in 1..Len(prev)
    /\ pc = "done"
    /\ prev[j].all_optimal
    /\ Summary.all_optimal

SameAssignment(j) == prev[j].box_to_items = box_to_items

ShrinkWith(eq, j) == IF equal_shrink = eq THEN Summary.total_shrink ELSE prev[j].total_shrink

\* C6 as stated: for the same items, box and per_box, with every solve
\* OPTIMAL, the total shrink with equal_shrink is never smaller than the
\* total shrink without it.
C6_Original ==
    \A j \in 1..Len(prev) :
        (BothOptimal(j) /\ prev[j].equal_shrink # equal_shrink) =>
            ShrinkWith(TRUE, j) >= ShrinkWith(FALSE, j)

\* C6 amended: the total shrink with equal_shrink is never smaller than the
\* total shrink without it provided both calls report the same
\* num_boxes_used and, in per_box mode, Phase 1 assigned the items to the
\* boxes in the same way in both calls.
C6_MonotoneSameBoxes ==
    \A j \in 1..Len(prev) :
        (/\ BothOptimal(j)
         /\ prev[j].equal_shrink # equal_shrink
         /\ prev[j].num_boxes_used = Summary.num_boxes_used
         /\ per_box => SameAssignment(j)) =>
            ShrinkWith(TRUE, j) >= ShrinkWith(FALSE, j)

\* Same box count, and equal shrink costs strictly more than free shrink.
C6_Witness ==
    /\ BothOptimal(1)
    /\ prev[1].equal_shrink # equal_shrink
    /\ prev[1].num_boxes_used = Summary.num_boxes_used
    /\ ~per_box
    /\ ShrinkWith(TRUE, 1) > ShrinkWith(FALSE, 1)
    /\ ShrinkWith(FALSE, 1) > 0

\* C7 as stated: two calls with identical items and parameters, per_box
\* false or true, in which every solver call ends OPTIMAL, return the same
\* num_boxes_used and the same total shrink.
C7_Original ==
    \A j \in 1..Len(prev) :
        (BothOptimal(j) /\ prev[j].equal_shrink = equal_shrink) =>
            /\ prev[j].num_boxes_used = Summary.num_boxes_used
            /\ prev[j].total_shrink = Summary.total_shrink

\* C7 amended: two such calls return the same num_boxes_used; they return
\* the same total shrink when per_box is false, and when per_box is true
\* provided Phase 1 assigned the items to the boxes in the same way.
C7_IdempotentGlobal ==
    \A j \in 1..Len(prev) :
        (BothOptimal(j) /\ prev[j].equal_shrink = equal_shrink) =>
            /\ prev[j].num_boxes_used = Summary.num_boxes_used
            /\ (~per_box \/ SameAssignment(j)) => prev[j].total_shrink = Summary.total_shrink

\* Two identical global calls over three items, two boxes, a positive shrink,
\* and Phase 1 assignments that differ.
C7_Witness ==
    /\ BothOptimal(1)
    /\ prev[1].equal_shrink = equal_shrink
    /\ ~per_box
    /\ Len(items) = 3
    /\ Summary.num_boxes_used = Some(2)
    /\ Summary.total_shrink > 0
    /\ ~SameAssignment(1)

-----------------------------------------------------------------------------
(* Result classification *)

\* The documented table from solver status to outcome.
OutcomeOf(status) ==
    CASE status = "OPTIMAL" -> "OPTIMAL"
      [] status = "FEASIBLE" -> "FEASIBLE"
      [] status = "INFEASIBLE" -> "NO_SOLUTION_INFEASIBLE"
      [] status = "UNKNOWN" -> "NO_SOLUTION_TIMEOUT"
      [] OTHER -> "NO_SOLUTION_UNKNOWN"

Phase1Failed == Returned /\ Get(result).num_boxes_used = None

\* C11: every outcome derived from a single solver status follows the table
\* OPTIMAL -> OPTIMAL, FEASIBLE -> FEASIBLE, INFEASIBLE ->
\* NO_SOLUTION_INFEASIBLE, UNKNOWN -> NO_SOLUTION_TIMEOUT, any other status
\* -> NO_SOLUTION_UNKNOWN: the outcome of a Phase 1 failure, the outcome of
\* each Phase 2 entry, and the overall outcome of a global Phase 2.
C11_OutcomeMapping ==
    Returned =>
        /\ Phase1Failed => Get(result).outcome = OutcomeOf(Get(result).status_phase1)
        /\ \A k \in 1..Len(Entries) : Entries[k].outcome = OutcomeOf(Entries[k].status)
        /\ (~Phase1Failed /\ ~per_box) => Get(result).outcome = OutcomeOf(Entries[1].status)

\* The part of C11 about Phase 2: each entry's outcome, and the overall
\* outcome of a global Phase 2, follow the table.
C11_Phase2Mapping ==
    Returned =>
        /\ \A k \in 1..Len(Entries) : Entries[k].outcome = OutcomeOf(Entries[k].status)
        /\ (~Phase1Failed /\ ~per_box) => Get(result).outcome = OutcomeOf(Entries[1].status)

\* Phase 1 ended with a status that is none of the four named ones, and the
\* result reports a timeout.
C11_Witness ==
    /\ Phase1Failed
    /\ Get(result).status_phase1 = "MODEL_INVALID"
    /\ Get(result).outcome = "NO_SOLUTION_TIMEOUT"

\* A per-box run that went through Phase 2 and returned.
PerBoxReturned == pc = "done" /\ per_box /\ ~Phase1Failed

EveryBoxOptimal == \A k \in 1..Len(Entries) : Entries[k].outcome = "OPTIMAL"

EveryBoxPlaced == \A k \in 1..Len(Entries) : Entries[k].packed_items # None

\* C12: in per_box mode the overall outcome is OPTIMAL exactly when every
\* box's outcome is OPTIMAL, FEASIBLE exactly when every box produced a
\* placement but some box's outcome is not OPTIMAL, NO_SOLUTION_UNKNOWN
\* exactly when some box produced no placement, whatever that box's own
\* outcome; success is true exactly in the first two cases.
C12_PerBoxOverall ==
    PerBoxReturned =>
        /\ Get(result).outcome = "OPTIMAL" <=> EveryBoxOptimal
        /\ Get(result).outcome = "FEASIBLE" <=> (EveryBoxPlaced /\ ~EveryBoxOptimal)
        /\ Get(result).outcome = "NO_SOLUTION_UNKNOWN" <=> ~EveryBoxPlaced
        /\ Get(result).success <=> Get(result).outcome \in {"OPTIMAL", "FEASIBLE"}

\* Two boxes, one solved to optimality and one only feasibly: overall FEASIBLE.
C12_Witness ==
    /\ PerBoxReturned
    /\ Len(Entries) = 2
    /\ Entries[1].outcome = "OPTIMAL"
    /\ Entries[2].outcome = "FEASIBLE"
    /\ Get(result).outcome = "FEASIBLE"
    /\ Get(result).success

\* A box proven infeasible or timed out makes the overall outcome
\* NO_SOLUTION_UNKNOWN while the other box keeps its placement.
C12_WitnessFailure ==
    /\ PerBoxReturned
    /\ Len(Entries) = 2
    /\ Entries[1].outcome = "NO_SOLUTION_TIMEOUT"
    /\ Entries[2].outcome = "OPTIMAL"
    /\ Get(result).outcome = "NO_SOLUTION_UNKNOWN"

Solved(outcome) == outcome \in {"OPTIMAL", "FEASIBLE"}

\* C13: for every PackingResult returned on any path, success is true if and
\* only if outcome is OPTIMAL or FEASIBLE; and for every PerBoxPackingResult
\* in it, packed_items and total_shrink are present if and only if its
\* outcome is OPTIMAL or FEASIBLE.
C13_SuccessMatchesOutcome ==
    Returned =>
        /\ Get(result).success <=> Solved(Get(result).outcome)
        /\ \A k \in 1..Len(Entries) :
              /\ Entries[k].packed_items # None <=> Solved(Entries[k].outcome)
              /\ Entries[k].total_shrink # None <=> Solved(Entries[k].outcome)

\* A global Phase 2 that stopped with a feasible, unproven solution.
C13_Witness ==
    /\ Returned
    /\ ~per_box
    /\ Get(result).success
    /\ Get(result).outcome = "FEASIBLE"
    /\ Len(Entries) = 1
    /\ Entries[1].outcome = "FEASIBLE"
    /\ Entries[1].packed_items # None
    /\ Entries[1].total_shrink # None

\* A global Phase 2 that found nothing: no success and an entry without placements.
C13_WitnessFailure ==
    /\ Returned
    /\ ~per_box
    /\ ~Phase1Failed
    /\ ~Get(result).success
    /\ Entries[1].packed_items = None
    /\ Entries[1].total_shrink = None

-----------------------------------------------------------------------------
(* The shrink of Phase 2 against packings written out directly *)

\* The total shrink of a packing p of the submitted items.
ShrinkOf(p) ==
    SumSeq([i \in 1..Len(items) |-> (items[i].width - p[i].w) + (items[i].height - p[i].h)])

\* The least total shrink over the overlap-free in-bounds packings of all
\* items into k boxes at the sizes the shrink mode allows.
LeastShrink(k) ==
    MinOf({ ShrinkOf(p) :
              p \in Packings([i \in 1..Len(items) |-> SizesOfMode(items[i])], Len(items), k) })

GlobalOptimal ==
    /\ Returned
    /\ ~per_box
    /\ ~Phase1Failed
    /\ Entries[1].status = "OPTIMAL"

\* C14: in global mode, when the Phase 2 solve ends OPTIMAL, the reported
\* total_shrink is the minimum, over all non-overlapping in-bounds placements
\* of all items into min_boxes boxes that respect the size bounds and the
\* equal_shrink coupling, of the sum of (original_width - width) +
\* (original_height - height); also when the shrink objective was skipped.
C14_GlobalShrinkMinimal ==
    GlobalOptimal => Get(Entries[1].total_shrink) = LeastShrink(Get(min_boxes))

\* An optimal global solve of two boxes that needs a positive shrink.
C14_Witness ==
    /\ GlobalOptimal
    /\ shrinkable(items)
    /\ Get(min_boxes) = 2
    /\ Get(Entries[1].total_shrink) > 0

\* An optimal global solve whose shrink objective was skipped.
C14_WitnessNoObjective ==
    /\ GlobalOptimal
    /\ ~shrinkable(items)
    /\ Len(items) = 2
    /\ Get(Entries[1].total_shrink) = 0

-----------------------------------------------------------------------------
(* The box assignment *)

Phase1Succeeded == status1 # None /\ Get(status1) \in {"OPTIMAL", "FEASIBLE"}

\* Every group of the box assignment holds an item, and no per-box entry
\* reports an empty placement list.
NoEmptyBox ==
    /\ \A b \in 0..(Get(min_boxes) - 1) : Get(box_to_items)[b] # <<>>
    /\ per_box => \A k \in 1..Len(packing_results_per_mode) :
                     packing_results_per_mode[k].packed_items # Some(<<>>)

\* C15 as stated: whenever Phase 1 succeeds (OPTIMAL or FEASIBLE), the box
\* ids assigned to items are exactly 0..min_boxes-1: each of the min_boxes
\* groups holds at least one item, and per_box mode never solves or reports
\* an empty box.
C15_Original == Phase1Succeeded => NoEmptyBox

\* C15 amended: whenever Phase 1 ends OPTIMAL, each of the min_boxes groups
\* holds at least one item, and per_box mode never solves or reports an
\* empty box.
C15_NoEmptyBoxWhenOptimal == Phase1Optimal => NoEmptyBox

\* An optimal Phase 1 with two boxes, each solved with its one item.
C15_Witness ==
    /\ Phase1Optimal
    /\ per_box
    /\ pc = "done"
    /\ Get(min_boxes) = 2
    /\ Len(packing_results_per_mode) = 2
    /\ NoEmptyBox

\* C16: max_box_id ranges over [0, n-1] for n items, so whenever Phase 1
\* succeeds (OPTIMAL or FEASIBLE) num_boxes_used satisfies
\* 1 <= num_boxes_used <= n.
C16_BoxCountRange ==
    Phase1Succeeded =>
        /\ 1 <= Get(min_boxes)
        /\ Get(min_boxes) <= Len(items)

\* The part of C16 that holds: after an OPTIMAL Phase 1,
\* 1 <= num_boxes_used <= n.
C16_RangeWhenOptimal ==
    Phase1Optimal =>
        /\ 1 <= Get(min_boxes)
        /\ Get(min_boxes) <= Len(items)

\* Phase 1 stopped with a feasible solution and the returned result reports
\* one box more than there are items.
C16_Witness ==
    /\ Returned
    /\ Get(result).status_phase1 = "FEASIBLE"
    /\ Get(result).num_boxes_used = Some(Len(items) + 1)

-----------------------------------------------------------------------------
(* Shrink coupling *)

\* The shrink of the i-th PackedItem of entry k on each axis.
WidthShrink(k, i) == SolvedList(k)[i].width - Get(Entries[k].packed_items)[i].width
HeightShrink(k, i) == SolvedList(k)[i].height - Get(Entries[k].packed_items)[i].height

\* The entries with placements and the positions in them.
PackedPlaces ==
    { <<k, i>> \in (1..Len(Entries)) \X (1..Len(items)) :
         /\ Entries[k].packed_items # None
         /\ i <= Len(Get(Entries[k].packed_items)) }

\* C17: with equal_shrink every returned PackedItem shrinks by the same
\* amount s on both axes, 0 <= s <= min(width - width_min, height -
\* height_min); without it width and height each lie within their own bounds.
C17_EqualShrinkCoupling ==
    Returned =>
        \A pl \in PackedPlaces :
            LET it == SolvedList(pl[1])[pl[2]]
                sw == WidthShrink(pl[1], pl[2])
                sh == HeightShrink(pl[1], pl[2])
            IN  IF equal_shrink
                THEN /\ sw = sh
                     /\ 0 <= sw
                     /\ sw <= min(it.width - it.width_min, it.height - it.height_min)
                ELSE /\ 0 <= sw /\ sw <= it.width - it.width_min
                     /\ 0 <= sh /\ sh <= it.height - it.height_min

\* With equal_shrink, an item returned one unit smaller on both axes.
C17_Witness ==
    /\ Returned
    /\ equal_shrink
    /\ \E pl \in PackedPlaces :
          /\ WidthShrink(pl[1], pl[2]) = 1
          /\ HeightShrink(pl[1], pl[2]) = 1

\* Without equal_shrink, an item returned with different shrinks on the two axes.
C17_WitnessIndependent ==
    /\ Returned
    /\ ~equal_shrink
    /\ \E pl \in PackedPlaces : WidthShrink(pl[1], pl[2]) # HeightShrink(pl[1], pl[2])

-----------------------------------------------------------------------------
(* Every item packed once *)

\* The number of positions of a list of records that carry id v.
CountId(list, v) == Cardinality({ i \in 1..Len(list) : list[i].id = v })

Ids(list) == { list[i].id : i \in 1..Len(list) }

\* C18: on every successful result each submitted item is packed exactly
\* once: the PackedItem ids over all entries are the input ids with the same
\* multiplicities; in per_box mode entry k holds exactly the items of the
\* group Phase 1 built for box k-1, each with box_id equal to the entry's
\* box_id; in global mode every box_id lies in 0..min_boxes-1.
C18_EachItemOnce ==
    (Returned /\ Get(result).success) =>
        /\ Len(AllPacked) = Len(items)
        /\ \A v \in Ids(items) \cup Ids(AllPacked) : CountId(AllPacked, v) = CountId(items, v)
        /\ per_box =>
              \A k \in 1..Len(Entries) :
                  LET packed == Get(Entries[k].packed_items)
                      group == Get(box_to_items)[k - 1]
                  IN  /\ Len(packed) = Len(group)
                      /\ \A i \in 1..Len(packed) :
                            /\ packed[i].id = group[i].id
                            /\ Some(packed[i].box_id) = Entries[k].box_id
                            /\ packed[i].box_id = k - 1
        /\ ~per_box =>
              \A i \in 1..Len(AllPacked) : AllPacked[i].box_id \in 0..(Get(min_boxes) - 1)

\* A successful per-box result with two items of the same id in one box.
C18_Witness ==
    /\ Returned
    /\ Get(result).success
    /\ per_box
    /\ Len(items) = 2
    /\ items[1].id = items[2].id
    /\ Len(Entries) = 1
    /\ Len(Get(Entries[1].packed_items)) = 2

\* A successful global result that uses the second of two boxes.
C18_WitnessGlobal ==
    /\ Returned
    /\ Get(result).success
    /\ ~per_box
    /\ Get(min_boxes) = 2
    /\ \E i \in 1..Len(AllPacked) : AllPacked[i].box_id = 1

-----------------------------------------------------------------------------
(* Satisfiability of the models *)

Phase1Ran == status1 # None

\* The smallest size the shrink mode allows for item i fits the box.
SmallestFits(i) ==
    \A sz \in SizeSmallestOfMode(items[i]) : sz[1] <= box_width /\ sz[2] <= box_height

\* C19 as stated: for every input that passes validation, with either value
\* of equal_shrink, Phase 1 never ends INFEASIBLE and the result outcome is
\* never NO_SOLUTION_INFEASIBLE with num_boxes_used = None.
C19_Original ==
    /\ status1 # Some("INFEASIBLE")
    /\ Returned =>
          ~(Get(result).outcome = "NO_SOLUTION_INFEASIBLE" /\ Get(result).num_boxes_used = None)

\* C19 amended: for every input that passes validation, the Phase 1 model is
\* satisfiable exactly when every item fits the box at the smallest size its
\* shrink mode allows, which is always the case with equal_shrink = false;
\* then Phase 1 never ends INFEASIBLE and the outcome is never
\* NO_SOLUTION_INFEASIBLE with num_boxes_used = None.  With equal_shrink =
\* true an item that does not fit at that size leaves Phase 1 without a solution.
C19_SatisfiableOfMode ==
    Phase1Ran =>
        /\ ~equal_shrink => \A i \in 1..Len(items) : SmallestFits(i)
        /\ (\A i \in 1..Len(items) : SmallestFits(i)) =>
              /\ status1 # Some("INFEASIBLE")
              /\ Returned =>
                    ~(/\ Get(result).outcome = "NO_SOLUTION_INFEASIBLE"
                      /\ Get(result).num_boxes_used = None)
        /\ (\E i \in 1..Len(items) : ~SmallestFits(i)) => ~Phase1Succeeded

\* With equal_shrink, Phase 1 proved optimal a packing of two items of which
\* one exceeds the box at its original size.
C19_Witness ==
    /\ Phase1Optimal
    /\ equal_shrink
    /\ Len(items) = 2
    /\ \E i \in 1..Len(items) : items[i].width > box_width
    /\ \A i \in 1..Len(items) : SmallestFits(i)

\* C20: whenever Phase 1 succeeds, every Phase 2 model is satisfiable: the
\* global model with capacity min_boxes and each per-box model with capacity
\* 1 never end INFEASIBLE, and a Phase 2 entry without placements comes from
\* a status other than INFEASIBLE; with a sufficient time budget every
\* Phase 2 entry carries placements.
C20_Phase2Satisfiable ==
    \A k \in 1..Len(packing_results_per_mode) :
        /\ packing_results_per_mode[k].status # "INFEASIBLE"
        /\ packing_results_per_mode[k].outcome # "NO_SOLUTION_INFEASIBLE"
        /\ packing_results_per_mode[k].packed_items = None =>
              (~sufficient /\ packing_results_per_mode[k].status \in {"UNKNOWN", "MODEL_INVALID"})

\* After a Phase 1 that stopped with a feasible two-box solution, the global
\* Phase 2 over two items was solved to optimality.
C20_Witness ==
    /\ Returned
    /\ ~per_box
    /\ Get(result).status_phase1 = "FEASIBLE"
    /\ Get(min_boxes) = 2
    /\ Len(items) = 2
    /\ Entries[1].status = "OPTIMAL"

\* A per-box entry without placements after a timeout.
C20_WitnessTimeout ==
    /\ Returned
    /\ per_box
    /\ \E k \in 1..Len(Entries) :
          /\ Entries[k].packed_items = None
          /\ Entries[k].status = "UNKNOWN"

-----------------------------------------------------------------------------
(* Global against per-box Phase 2 *)

\* The call that just returned and the previous call on the same instance
\* differ in per_box only, started Phase 2 from the same Phase 1 solution,
\* and every Phase 2 solve of both ended OPTIMAL.
BothModesOptimal ==
    /\ prev # None
    /\ Returned
    /\ Get(prev).per_box # per_box
    /\ Get(prev).equal_shrink = equal_shrink
    /\ Get(prev).box_to_items # None
    /\ Get(prev).box_to_items = box_to_items
    /\ Get(prev).phase2_optimal
    /\ Summary.phase2_optimal

GlobalShrink == IF per_box THEN Get(prev).total_shrink ELSE Summary.total_shrink

PerBoxShrink == IF per_box THEN Summary.total_shrink ELSE Get(prev).total_shrink

\* C21: for the same items, box and equal_shrink and the same Phase 1
\* solution, when every Phase 2 solve ends OPTIMAL the global-mode
\* total_shrink is at most the sum of the per-box total_shrink values.
C21_GlobalAtMostPerBox == BothModesOptimal => GlobalShrink <= PerBoxShrink

\* The global solve reassigned items and shrinks strictly less than the
\* per-box solves of the same Phase 1 assignment.
C21_Witness ==
    /\ BothModesOptimal
    /\ Get(min_boxes) = 2
    /\ GlobalShrink < PerBoxShrink

-----------------------------------------------------------------------------
(* The front end: the item list during a solve *)

\* C22: while RectPackerEngine.state is running no UI action (add_item,
\* delete_item, load_example, an edit of an item field) changes the engine's
\* items, so the model is built from exactly the data that passed validation.
C22_ItemsStableWhileRunning ==
    [][/\ state = "running" => items' = items
       /\ built' # None => built' = validated']_vars

\* The solve validated its list and then built model1 from a list that
\* would not have passed validation.
C22_Witness ==
    /\ built # None
    /\ validated # None
    /\ validation(Get(validated), Get(solving).box_width, Get(solving).box_height, time_limit) = None
    /\ validation(Get(built), Get(solving).box_width, Get(solving).box_height, time_limit) # None

-----------------------------------------------------------------------------
(* The front end: item ids and list positions *)

\* Every item's id is its index in the list (counted from 0).
IdsAreIndexes == \A i \in 1..Len(items) : items[i].id = i - 1

IdsDistinct == \A i, j \in 1..Len(items) : i # j => items[i].id # items[j].id

\* C23: after any sequence of load_example, add_item and delete_item, every
\* item's id equals its index in the items list and ids are pairwise
\* distinct, so the delete button of an item always removes exactly that
\* item and never raises.
C23_DeleteRemovesClicked ==
    /\ IdsAreIndexes
    /\ IdsDistinct
    /\ ui_error = None
    /\ last_delete # None => Get(last_delete).removed = Get(last_delete).clicked

\* The part of C23 that holds: while engine.items is the engine's own list,
\* ids are indexes and pairwise distinct.
C23_OwnListIdsAreIndexes == alias = "own" => (IdsAreIndexes /\ IdsDistinct)

\* A delete click removed the item after the one clicked.
C23_Witness ==
    /\ last_delete # None
    /\ Get(last_delete).removed = Get(last_delete).clicked + 1
    /\ ui_error = None

\* A delete click on the last card of a loaded example raised IndexError.
C23_WitnessRaises ==
    /\ ui_error = Some("IndexError")
    /\ alias # "own"

\* After load_example and add_item two items carry the same id.
C23_WitnessDuplicate == ~IdsDistinct

====
